---- MODULE Spec2Model ----
(***************************************************************************)
(* Model of the fuzzy favorability pipeline (src/modelgeneration.py) and   *)
(* of its validation script (src/unnamed/part_000, "Model validation.py"). *)
(*                                                                         *)
(* Floating-point cells are records [k, v]: k = "fin" with v an integer    *)
(* (raw raster units for raster readings, thousandths for fuzzy values),   *)
(* k = "nan", k = "inf" with v the sign, and k = "none" for Python's None. *)
(***************************************************************************)
EXTENDS Integers, Sequences, FiniteSets, TLC

\* ------------------------------------------------------------------ bounds
\* cells of a raster in the model-generation pipeline (flattened grid)
NumCells == 2
\* number of raster layers in raster_files
NumLayers == 2
\* most layers handed to fuzzy_gamma_overlay when it is checked on its own
MaxOverlayLayers == 2
\* terms of the series that evaluates np.exp
ExpTerms == 12
\* most points in the shapefile
MaxPoints == 2

\* fixed-point unit of fuzzy values: 1.0
ONE == 10 * 100

\* ------------------------------------------------------------ float values
NaN == [k |-> "nan", v |-> 0]
None == [k |-> "none", v |-> 0]
Fin(n) == [k |-> "fin", v |-> n]
Inf(s) == [k |-> "inf", v |-> s]

\* np.isnan on an array element or a float
isnan(x) == x.k = "nan"

Sign(n) == IF n > 0 THEN 1 ELSE IF n < 0 THEN -1 ELSE 0
Abs(n) == IF n < 0 THEN -n ELSE n
SignOf(x) == IF x.k = "inf" THEN x.v ELSE Sign(x.v)

\* a < b on floats that are not NaN
FLess(a, b) ==
  IF a.k = "inf" THEN a.v < 0 /\ ~(b.k = "inf" /\ b.v < 0)
  ELSE IF b.k = "inf" THEN b.v > 0
  ELSE a.v < b.v

\* np.minimum / np.maximum of two elements: NaN propagates
FMin(a, b) == IF isnan(a) \/ isnan(b) THEN NaN ELSE IF FLess(b, a) THEN b ELSE a
FMax(a, b) == IF isnan(a) \/ isnan(b) THEN NaN ELSE IF FLess(a, b) THEN b ELSE a

\* a * b on fuzzy values (thousandths), rounded toward zero
FMul(a, b) ==
  IF isnan(a) \/ isnan(b) THEN NaN
  ELSE IF a.k = "inf" \/ b.k = "inf"
       THEN (IF SignOf(a) = 0 \/ SignOf(b) = 0 THEN NaN ELSE Inf(SignOf(a) * SignOf(b)))
  ELSE Fin(Sign(a.v) * Sign(b.v) * ((Abs(a.v) * Abs(b.v)) \div ONE))

\* np.exp(num / den) for den > 0, in thousandths; float32 overflows to inf
\* above 88 and underflows to 0 below -104
RECURSIVE ExpSeries(_, _, _, _, _)
ExpSeries(num, den, n, term, acc) ==
  IF n > ExpTerms THEN acc
  ELSE LET t == Sign(term * num) * (Abs(term * num) \div (den * n))
       IN ExpSeries(num, den, n + 1, t, acc + t)

Exp(num, den) ==
  IF num > 88 * den THEN Inf(1)
  ELSE IF num < (-104) * den THEN Fin(0)
  ELSE Fin(ExpSeries(num, den, 1, ONE, ONE))

\* -------------------------------------------------- src/modelgeneration.py
\* the element-wise body of gaussian_membership: exp(-((v - c) * 2) / (2 * sigma * 2))
gaussian_cell(x, c, sigma) ==
  LET num == -((x.v - c) * 2)
      den == 2 * sigma * 2
  IN IF den = 0
     THEN (IF num > 0 THEN Inf(1) ELSE IF num < 0 THEN Fin(0) ELSE NaN)
     ELSE IF den > 0 THEN Exp(num, den) ELSE Exp(-num, -den)

gaussian_membership(array, c, sigma) ==
  [j \in DOMAIN array |-> gaussian_cell(array[j], c, sigma)]

RECURSIVE minimum_reduce(_, _)
minimum_reduce(arrays, j) ==
  IF Len(arrays) = 1 THEN arrays[1][j]
  ELSE FMin(minimum_reduce(SubSeq(arrays, 1, Len(arrays) - 1), j), arrays[Len(arrays)][j])

RECURSIVE maximum_reduce(_, _)
maximum_reduce(arrays, j) ==
  IF Len(arrays) = 1 THEN arrays[1][j]
  ELSE FMax(maximum_reduce(SubSeq(arrays, 1, Len(arrays) - 1), j), arrays[Len(arrays)][j])

fuzzy_and(fuzzy_arrays) == [j \in DOMAIN fuzzy_arrays[1] |-> minimum_reduce(fuzzy_arrays, j)]
fuzzy_or(fuzzy_arrays) == [j \in DOMAIN fuzzy_arrays[1] |-> maximum_reduce(fuzzy_arrays, j)]

\* (fuzzy_and * (1 - gamma_val)) * (fuzzy_or * gamma_val)
fuzzy_gamma_overlay(fuzzy_arrays, gamma_val) ==
  [j \in DOMAIN fuzzy_arrays[1] |->
     FMul(FMul(fuzzy_and(fuzzy_arrays)[j], Fin(ONE - gamma_val)),
          FMul(fuzzy_or(fuzzy_arrays)[j], Fin(gamma_val)))]

\* np.nan_to_num(arr, nan=0) on cells that are finite or NaN
nan_to_num(arr) == [j \in DOMAIN arr |-> IF isnan(arr[j]) THEN Fin(0) ELSE arr[j]]

\* read_raster: band 1 as float32 and the file's metadata
read_raster(file) == [arr |-> file.data, meta |-> [nodata |-> file.nodata]]

\* save_raster: meta.update(dtype=float32, count=1), then the write
save_raster(array, meta) ==
  [data |-> array, meta |-> [nodata |-> meta.nodata, dtype |-> "float32", count |-> 1]]

VARIABLES
  \* fuzzy_gamma_overlay checked on its own
  ov_layers, ov_gamma, ov_out, ov_pc,
  \* model generation (src/modelgeneration.py)
  centers, sigmas, gamma_value, raw_layers, membership_in, fuzzy_layers, meta,
  overlay, output_file, gpc,
  \* model validation (src/unnamed/part_000)
  shapefile, points_gdf, raster_data, raster_height, raster_width, transform,
  raster_crs, nodata, pt, reads, occurrence_values, valid_cells, sample_size,
  rand_idx, random_values, y_true, y_score, auc_score, printed, error, vpc

ovVars == <<ov_layers, ov_gamma, ov_out, ov_pc>>
genVars == <<centers, sigmas, gamma_value, raw_layers, membership_in, fuzzy_layers,
             meta, overlay, output_file, gpc>>
valVars == <<shapefile, points_gdf, raster_data, raster_height, raster_width,
             transform, raster_crs, nodata, pt, reads, occurrence_values,
             valid_cells, sample_size, rand_idx, random_values, y_true, y_score,
             auc_score, printed, error, vpc>>
vars == <<ovVars, genVars, valVars>>

\* the state of a script that is not running
OvIdle == ov_layers = <<>> /\ ov_gamma = 0 /\ ov_out = <<>> /\ ov_pc = "idle"
GenIdle ==
  /\ centers = <<>> /\ sigmas = <<>> /\ gamma_value = 0
  /\ raw_layers = <<>> /\ membership_in = <<>> /\ fuzzy_layers = <<>>
  /\ meta = [nodata |-> None] /\ overlay = <<>> /\ output_file = <<>> /\ gpc = "idle"
ValIdle ==
  /\ shapefile = <<>> /\ points_gdf = <<>> /\ raster_data = <<>>
  /\ raster_height = 0 /\ raster_width = 0 /\ transform = <<>>
  /\ raster_crs = "none" /\ nodata = None /\ pt = 0 /\ reads = <<>>
  /\ occurrence_values = <<>> /\ valid_cells = <<>> /\ sample_size = 0
  /\ rand_idx = <<>> /\ random_values = <<>> /\ y_true = <<>> /\ y_score = <<>>
  /\ auc_score = <<>> /\ printed = FALSE /\ error = "" /\ vpc = "idle"

\* ------------------------------------------- fuzzy_gamma_overlay on its own
\* fuzzy values in [0,1] and gammas in [0,1]
UnitVals == {Fin(0), Fin(ONE \div 4), Fin(ONE \div 2), Fin(ONE)}
UnitGammas == {0, ONE \div 2, (85 * ONE) \div 100, ONE}
Cells == 1..NumCells
LayerLists(S, n) == UNION {[1..m -> [Cells -> S]] : m \in 1..n}

InitOverlay ==
  /\ ov_layers \in LayerLists(UnitVals, MaxOverlayLayers)
  /\ ov_gamma \in UnitGammas
  /\ ov_out = <<>>
  /\ ov_pc = "call"
  /\ GenIdle /\ ValIdle

CallOverlay ==
  /\ ov_pc = "call"
  /\ ov_out' = fuzzy_gamma_overlay(ov_layers, ov_gamma)
  /\ ov_pc' = "done"
  /\ UNCHANGED <<ov_layers, ov_gamma, genVars, valVars>>

NextOverlay == CallOverlay
SpecOverlay == InitOverlay /\ [][NextOverlay]_vars

\* ------------------------------------------------ model generation pipeline
NoDataValue == 0 - 9999
RawVals == {Fin(0), Fin(4), NaN, Fin(NoDataValue)}
RasterFiles == [data : [Cells -> RawVals], nodata : {NaN, Fin(NoDataValue)}]
CenterVals == {0, 2}
SigmaVals == {0, 1}
GammaVals == {ONE \div 2, (85 * ONE) \div 100, (3 * ONE) \div 2}

\* lines 41-55 and 61: the user inputs and the empty layer list
InitGen ==
  /\ centers \in [1..NumLayers -> CenterVals]
  /\ sigmas \in [1..NumLayers -> SigmaVals]
  /\ gamma_value \in GammaVals
  /\ raw_layers = <<>>
  /\ membership_in = <<>>
  /\ fuzzy_layers = <<>>
  /\ meta = [nodata |-> None]
  /\ overlay = <<>>
  /\ output_file = <<>>
  /\ gpc = "loop"
  /\ OvIdle /\ ValIdle

\* one iteration of the loop of lines 64-72 on the raster found at raster_path
ProcessLayer ==
  /\ gpc = "loop"
  /\ Len(fuzzy_layers) < NumLayers
  /\ \E file \in RasterFiles :
       LET i == Len(fuzzy_layers) + 1
           rd == read_raster(file)
           arr == nan_to_num(rd.arr)
           fuzzy == gaussian_membership(arr, centers[i], sigmas[i])
       IN /\ raw_layers' = Append(raw_layers, file)
          /\ meta' = rd.meta
          /\ membership_in' = Append(membership_in, arr)
          /\ fuzzy_layers' = Append(fuzzy_layers, fuzzy)
  /\ UNCHANGED <<centers, sigmas, gamma_value, overlay, output_file, gpc, ovVars, valVars>>

\* line 75
ApplyOverlay ==
  /\ gpc = "loop"
  /\ Len(fuzzy_layers) = NumLayers
  /\ overlay' = fuzzy_gamma_overlay(fuzzy_layers, gamma_value)
  /\ gpc' = "save"
  /\ UNCHANGED <<centers, sigmas, gamma_value, raw_layers, membership_in, fuzzy_layers,
                 meta, output_file, ovVars, valVars>>

\* lines 78-80
SaveRaster ==
  /\ gpc = "save"
  /\ output_file' = save_raster(overlay, meta)
  /\ gpc' = "done"
  /\ UNCHANGED <<centers, sigmas, gamma_value, raw_layers, membership_in, fuzzy_layers,
                 meta, overlay, ovVars, valVars>>

NextGen == ProcessLayer \/ ApplyOverlay \/ SaveRaster
SpecGen == InitGen /\ [][NextGen]_vars

\* ------------------------------------------------ model validation pipeline
\* int(): truncation toward zero of the quotient n / d
TruncDiv(n, d) == Sign(n) * Sign(d) * (Abs(n) \div Abs(d))

\* ~transform * (x, y): the fractional pixel column and row as quotients over det
InverseApply(t, p) ==
  LET det == t.a * t.e - t.b * t.d
  IN [col_num |-> t.e * (p.x - t.c) - t.b * (p.y - t.f),
      row_num |-> t.a * (p.y - t.f) - t.d * (p.x - t.c),
      det |-> det]

\* lines 42-44: col, row = ~transform * (point.x, point.y); col = int(col); row = int(row)
PointIndex(t, p) ==
  LET fr == InverseApply(t, p)
  IN [col |-> TruncDiv(fr.col_num, fr.det), row |-> TruncDiv(fr.row_num, fr.det)]

\* the bounds check with <= for <
InBoundsInclusive(row, col, height, width) ==
  0 <= row /\ row <= height /\ 0 <= col /\ col <= width

\* line 47: 0 <= row < height and 0 <= col < width
InBounds(row, col, height, width) ==
  0 <= row /\ row < height /\ 0 <= col /\ col < width

\* raster[row, col]: a negative index counts from the end, any other index
\* outside the array raises IndexError
Indexable(row, col, height, width) ==
  -height <= row /\ row < height /\ -width <= col /\ col < width
GetItem(raster, row, col, height, width) ==
  raster[IF row < 0 THEN row + height ELSE row][IF col < 0 THEN col + width ELSE col]

\* val != nodata on floats: NaN differs from everything
FloatNe(a, b) == isnan(a) \/ isnan(b) \/ a # b

\* lines 50-51: (np.isnan(nodata) and not np.isnan(val)) or
\*              (not np.isnan(nodata) and val != nodata), for nodata a float
KeepValue(val, nd) ==
  (isnan(nd) /\ ~isnan(val)) \/ (~isnan(nd) /\ FloatNe(val, nd))

\* np.isnan(None) raises TypeError
IsNanRaises(nd) == nd.k = "none"

\* lines 60-63: the valid pixel mask
ValidMask(raster, nd, height, width) ==
  [r \in 0..(height - 1) |-> [c \in 0..(width - 1) |->
     IF isnan(nd) THEN ~isnan(raster[r][c]) ELSE FloatNe(raster[r][c], nd)]]

\* line 64: np.where(valid_mask), the true cells in row-major order
RECURSIVE Where(_, _, _, _)
Where(mask, height, width, n) ==
  IF n = 0 THEN <<>>
  ELSE LET r == (n - 1) \div width
           c == (n - 1) % width
           rest == Where(mask, height, width, n - 1)
       IN IF mask[r][c] THEN Append(rest, <<r, c>>) ELSE rest

\* line 67
SampleSize(n_rows, n_occ) == IF n_rows < n_occ THEN n_rows ELSE n_occ

\* the sampling guard left out
SamplingNeverAborts(size) == FALSE

\* line 68
SamplingAborts(size) == size = 0

\* the draw with replace=True
ChoicesWithReplacement(n, size) == [1..size -> 0..(n - 1)]

\* line 70: np.random.choice(n, size=size, replace=False): the possible draws
Choices(n, size) ==
  {s \in [1..size -> 0..(n - 1)] : \A i, j \in 1..size : i # j => s[i] # s[j]}

\* lines 74-76
OnesLike(a) == [i \in 1..Len(a) |-> 1]
ZerosLike(a) == [i \in 1..Len(a) |-> 0]

\* line 77: roc_auc_score, the share of (occurrence, random) pairs ranked in order,
\* ties counting one half, as a quotient; NaN scores are rejected
RECURSIVE SeqSum(_, _)
SeqSum(f, n) == IF n = 0 THEN 0 ELSE f[n] + SeqSum(f, n - 1)
PairScore(a, b) == IF FLess(b, a) THEN 2 ELSE IF FLess(a, b) THEN 0 ELSE 1
roc_auc_score(labels, scores) ==
  LET pos == SelectSeq([i \in 1..Len(scores) |-> <<labels[i], scores[i]>>], LAMBDA e : e[1] = 1)
      neg == SelectSeq([i \in 1..Len(scores) |-> <<labels[i], scores[i]>>], LAMBDA e : e[1] = 0)
      perPos == [i \in 1..Len(pos) |->
                   SeqSum([j \in 1..Len(neg) |-> PairScore(pos[i][2], neg[j][2])], Len(neg))]
  IN [num |-> SeqSum(perPos, Len(pos)), den |-> 2 * Len(pos) * Len(neg)]
HasNaN(scores) == \E i \in 1..Len(scores) : isnan(scores[i])

\* line 30: rasterio.crs.CRS.from_epsg(crs_epsg), crs_epsg = 32643
DefaultCrs == "EPSG:32643"

\* line 35: points_gdf.to_crs(raster_crs); a frame already in that reference
\* system keeps its coordinates
to_crs(gdf, crs) == [crs |-> crs, geometry |-> gdf.geometry]

\* the inputs on disk
Shapes == {<<1, 2>>, <<2, 1>>}
CellVals == {Fin(7), Fin(9), NaN, Fin(NoDataValue)}
NodataVals == {NaN, Fin(NoDataValue), None}
NorthUp == [a |-> 2, b |-> 0, c |-> 0, d |-> 0, e |-> -2, f |-> 4]
Rotated == [a |-> 0, b |-> 2, c |-> 0, d |-> 2, e |-> 0, f |-> 0]
Transforms == {NorthUp, Rotated}
WorldPoints == {[x |-> 1, y |-> 3], [x |-> 3, y |-> 3], [x |-> 1, y |-> 1],
                [x |-> -1, y |-> 3], [x |-> 1, y |-> 5], [x |-> -2, y |-> 3],
                [x |-> 1, y |-> 6]}
PointSeqs == UNION {[1..m -> WorldPoints] : m \in 0..MaxPoints}
Shapefiles == [crs : {"none", "EPSG:32643"}, geometry : PointSeqs]
RasterDatasets ==
  UNION {[data : [0..(sh[1] - 1) -> [0..(sh[2] - 1) -> CellVals]],
          height : {sh[1]}, width : {sh[2]},
          transform : Transforms, crs : {"none", "EPSG:32643"},
          nodata : NodataVals] : sh \in Shapes}

InitVal ==
  /\ shapefile = <<>> /\ points_gdf = <<>> /\ raster_data = <<>>
  /\ raster_height = 0 /\ raster_width = 0 /\ transform = <<>>
  /\ raster_crs = "none" /\ nodata = None /\ pt = 0 /\ reads = <<>>
  /\ occurrence_values = <<>> /\ valid_cells = <<>> /\ sample_size = 0
  /\ rand_idx = <<>> /\ random_values = <<>> /\ y_true = <<>> /\ y_score = <<>>
  /\ auc_score = <<>> /\ printed = FALSE /\ error = "" /\ vpc = "load_shapefile"
  /\ OvIdle /\ GenIdle

\* lines 16-17
LoadShapefile ==
  /\ vpc = "load_shapefile"
  /\ \E file \in Shapefiles :
       /\ shapefile' = file
       /\ points_gdf' = file
  /\ vpc' = "load_raster"
  /\ UNCHANGED <<raster_data, raster_height, raster_width, transform, raster_crs,
                 nodata, pt, reads, occurrence_values, valid_cells, sample_size,
                 rand_idx, random_values, y_true, y_score, auc_score, printed, error,
                 ovVars, genVars>>

\* lines 20-30: the raster's band 1 and metadata, with the default CRS when it has none
LoadRaster ==
  /\ vpc = "load_raster"
  /\ \E src \in RasterDatasets :
       /\ raster_data' = src.data
       /\ transform' = src.transform
       /\ raster_crs' = IF src.crs = "none" THEN DefaultCrs ELSE src.crs
       /\ raster_height' = src.height
       /\ raster_width' = src.width
       /\ nodata' = src.nodata
  /\ vpc' = "crs"
  /\ UNCHANGED <<shapefile, points_gdf, pt, reads, occurrence_values, valid_cells,
                 sample_size, rand_idx, random_values, y_true, y_score, auc_score,
                 printed, error, ovVars, genVars>>

\* the CRS check left out
NeverMissingCrs(gdf) == FALSE

\* line 33
MissingCrs(gdf) == gdf.crs = "none"

\* lines 33-35
CrsAlign ==
  /\ vpc = "crs"
  /\ IF MissingCrs(points_gdf)
     THEN /\ error' = "ValueError: Shapefile missing CRS definition"
          /\ vpc' = "error"
          /\ UNCHANGED <<points_gdf, pt>>
     ELSE /\ points_gdf' = to_crs(points_gdf, raster_crs)
          /\ pt' = 1
          /\ vpc' = "extract"
          /\ UNCHANGED error
  /\ UNCHANGED <<shapefile, raster_data, raster_height, raster_width, transform,
                 raster_crs, nodata, reads, occurrence_values, valid_cells, sample_size,
                 rand_idx, random_values, y_true, y_score, auc_score, printed,
                 ovVars, genVars>>

\* lines 40-52: one iteration of the loop of extract_values
ExtractPoint ==
  /\ vpc = "extract"
  /\ pt <= Len(points_gdf.geometry)
  /\ LET idx == PointIndex(transform, points_gdf.geometry[pt])
         row == idx.row
         col == idx.col
     IN IF InBounds(row, col, raster_height, raster_width)
        THEN /\ reads' = Append(reads, <<row, col>>)
             /\ IF ~Indexable(row, col, raster_height, raster_width)
                THEN /\ error' = "IndexError"
                     /\ vpc' = "error"
                     /\ UNCHANGED <<occurrence_values, pt>>
                ELSE IF IsNanRaises(nodata)
                THEN /\ error' = "TypeError: isnan"
                     /\ vpc' = "error"
                     /\ UNCHANGED <<occurrence_values, pt>>
                ELSE LET val == GetItem(raster_data, row, col, raster_height, raster_width)
                     IN /\ occurrence_values' =
                             IF KeepValue(val, nodata)
                             THEN Append(occurrence_values, val)
                             ELSE occurrence_values
                        /\ pt' = pt + 1
                        /\ UNCHANGED <<error, vpc>>
        ELSE /\ pt' = pt + 1
             /\ UNCHANGED <<reads, occurrence_values, error, vpc>>
  /\ UNCHANGED <<shapefile, points_gdf, raster_data, raster_height, raster_width,
                 transform, raster_crs, nodata, valid_cells, sample_size, rand_idx,
                 random_values, y_true, y_score, auc_score, printed, ovVars, genVars>>

\* lines 53-64: extract_values returns; the valid pixel mask and its cells
BuildValidMask ==
  /\ vpc = "extract"
  /\ pt > Len(points_gdf.geometry)
  /\ IF IsNanRaises(nodata)
     THEN /\ error' = "TypeError: isnan"
          /\ vpc' = "error"
          /\ UNCHANGED valid_cells
     ELSE /\ valid_cells' = Where(ValidMask(raster_data, nodata, raster_height, raster_width),
                                  raster_height, raster_width, raster_height * raster_width)
          /\ vpc' = "sample"
          /\ UNCHANGED error
  /\ UNCHANGED <<shapefile, points_gdf, raster_data, raster_height, raster_width,
                 transform, raster_crs, nodata, pt, reads, occurrence_values, sample_size,
                 rand_idx, random_values, y_true, y_score, auc_score, printed,
                 ovVars, genVars>>

\* lines 67-71
RandomSampling ==
  /\ vpc = "sample"
  /\ LET size == SampleSize(Len(valid_cells), Len(occurrence_values))
     IN /\ sample_size' = size
        /\ IF SamplingAborts(size)
           THEN /\ error' = "ValueError: No valid pixels for random sampling"
                /\ vpc' = "error"
                /\ UNCHANGED <<rand_idx, random_values>>
           ELSE /\ \E draw \in Choices(Len(valid_cells), size) :
                     /\ rand_idx' = draw
                     /\ random_values' =
                          [i \in 1..size |->
                             GetItem(raster_data, valid_cells[draw[i] + 1][1],
                                     valid_cells[draw[i] + 1][2],
                                     raster_height, raster_width)]
                /\ vpc' = "stats"
                /\ UNCHANGED error
  /\ UNCHANGED <<shapefile, points_gdf, raster_data, raster_height, raster_width,
                 transform, raster_crs, nodata, pt, reads, occurrence_values, valid_cells,
                 y_true, y_score, auc_score, printed, ovVars, genVars>>

\* lines 74-77
Statistics ==
  /\ vpc = "stats"
  /\ LET labels == OnesLike(occurrence_values) \o ZerosLike(random_values)
         scores == occurrence_values \o random_values
     IN /\ y_true' = labels
        /\ y_score' = scores
        /\ IF HasNaN(scores)
           THEN /\ error' = "ValueError: Input contains NaN"
                /\ vpc' = "error"
                /\ UNCHANGED auc_score
           ELSE /\ auc_score' = roc_auc_score(labels, scores)
                /\ vpc' = "output"
                /\ UNCHANGED error
  /\ UNCHANGED <<shapefile, points_gdf, raster_data, raster_height, raster_width,
                 transform, raster_crs, nodata, pt, reads, occurrence_values, valid_cells,
                 sample_size, rand_idx, random_values, printed, ovVars, genVars>>

\* lines 80-97: the summary and the histogram
Output ==
  /\ vpc = "output"
  /\ printed' = TRUE
  /\ vpc' = "done"
  /\ UNCHANGED <<shapefile, points_gdf, raster_data, raster_height, raster_width,
                 transform, raster_crs, nodata, pt, reads, occurrence_values, valid_cells,
                 sample_size, rand_idx, random_values, y_true, y_score, auc_score, error,
                 ovVars, genVars>>

Next ==
  \/ LoadShapefile \/ LoadRaster \/ CrsAlign \/ ExtractPoint \/ BuildValidMask
  \/ RandomSampling \/ Statistics \/ Output
Spec == InitVal /\ [][Next]_vars

\* ------------------------------------------------------------------ claims
\* a reading that is the raster's nodata sentinel: a NaN sentinel is matched
\* by kind, a numeric one by value, and without a sentinel nothing is nodata
IsNodataReading(v, nd) ==
  IF nd.k = "none" THEN FALSE ELSE IF isnan(nd) THEN isnan(v) ELSE v = nd

\* C1: for gamma in [0,1] and layers with cells in [0,1], every cell of the
\* result of fuzzy_gamma_overlay lies between the cell-wise minimum and the
\* cell-wise maximum of the layers.
OverlayBetweenAndOr ==
  ov_pc = "done" =>
    \A j \in Cells :
      /\ ~isnan(ov_out[j])
      /\ ~FLess(ov_out[j], fuzzy_and(ov_layers)[j])
      /\ ~FLess(fuzzy_or(ov_layers)[j], ov_out[j])

\* C2: for a spread > 0 and a finite cell value, gaussian_membership yields a
\* value in (0, 1], and 1 only where the value equals the center.
MembershipInUnitInterval ==
  \A i \in 1..Len(fuzzy_layers) : \A j \in Cells :
    (sigmas[i] > 0 /\ membership_in[i][j].k = "fin") =>
      LET m == fuzzy_layers[i][j]
      IN /\ m.k = "fin"
         /\ 0 < m.v
         /\ m.v <= ONE
         /\ (m.v = ONE => membership_in[i][j].v = centers[i])

\* C3: no cell whose raw reading is the raster's nodata sentinel, NaN or
\* numeric, reaches gaussian_membership with that reading: it is replaced by
\* the neutral value 0 first.
NodataNeverEvaluated ==
  \A i \in 1..Len(membership_in) : \A j \in Cells :
    IsNodataReading(raw_layers[i].data[j], raw_layers[i].nodata) =>
      membership_in[i][j] = Fin(0)

\* a spread of 0 or a gamma outside [0,1]
InvalidConfig ==
  (\E i \in 1..NumLayers : sigmas[i] = 0) \/ gamma_value < 0 \/ gamma_value > ONE
\* C6: with a spread of 0 or a gamma outside [0,1] the pipeline aborts before
\* any membership or overlay value is computed and writes no output raster.
InvalidConfigNeverComputes ==
  (gpc # "idle" /\ InvalidConfig) =>
    fuzzy_layers = <<>> /\ overlay = <<>> /\ output_file = <<>>

\* the validation script has read both of its inputs
Loaded == vpc \notin {"idle", "load_shapefile", "load_raster"}
\* the truncated index of a point lies in the grid
IndexInGrid(p) ==
  LET idx == PointIndex(transform, p)
  IN idx.row \in 0..(raster_height - 1) /\ idx.col \in 0..(raster_width - 1)
Survives(p) ==
  /\ IndexInGrid(p)
  /\ LET idx == PointIndex(transform, p)
     IN ~IsNodataReading(raster_data[idx.row][idx.col], nodata)
\* the values of the surviving points among the first n, in point order
RECURSIVE SurvivorValues(_, _)
SurvivorValues(points, n) ==
  IF n = 0 THEN <<>>
  ELSE LET rest == SurvivorValues(points, n - 1)
           idx == PointIndex(transform, points[n])
       IN IF Survives(points[n]) THEN Append(rest, raster_data[idx.row][idx.col]) ELSE rest
PointsDone == IF pt = 0 THEN 0 ELSE pt - 1
ValidCellSet ==
  {rc \in (0..(raster_height - 1)) \X (0..(raster_width - 1)) :
     ~IsNodataReading(raster_data[rc[1]][rc[2]], nodata)}

\* C4: with a numeric or NaN sentinel, extract_values reads only cells inside
\* the grid, appends no value that is the sentinel, keeps the order of the
\* points, and returns no more values than there are points.
ExtractSafe ==
  (Loaded /\ nodata.k # "none") =>
    /\ \A n \in 1..Len(reads) :
         /\ 0 <= reads[n][1] /\ reads[n][1] < raster_height
         /\ 0 <= reads[n][2] /\ reads[n][2] < raster_width
    /\ \A n \in 1..Len(occurrence_values) : ~IsNodataReading(occurrence_values[n], nodata)
    /\ occurrence_values = SurvivorValues(points_gdf.geometry, PointsDone)
    /\ Len(occurrence_values) <= Len(points_gdf.geometry)
ExtractSafeWitness ==
  /\ vpc = "sample"
  /\ isnan(nodata)
  /\ Len(points_gdf.geometry) = 2
  /\ Len(reads) = 2
  /\ Len(occurrence_values) = 1

\* the sampling block has drawn, or has refused to
Sampled == vpc \in {"stats", "output", "done"} \/ error = "ValueError: Input contains NaN"
SamplingRefused == error = "ValueError: No valid pixels for random sampling"
\* C5: background sampling draws only valid cells, none of them twice, and as
\* many as min(valid cells, occurrence values).
BackgroundSampling ==
  (Sampled \/ SamplingRefused) =>
    /\ Len(random_values) = SampleSize(Cardinality(ValidCellSet), Len(occurrence_values))
    /\ Len(rand_idx) = Len(random_values)
    /\ \A i \in 1..Len(rand_idx) :
         /\ rand_idx[i] \in 0..(Len(valid_cells) - 1)
         /\ valid_cells[rand_idx[i] + 1] \in ValidCellSet
         /\ random_values[i] =
              raster_data[valid_cells[rand_idx[i] + 1][1]][valid_cells[rand_idx[i] + 1][2]]
    /\ \A i, j \in 1..Len(rand_idx) :
         i # j => valid_cells[rand_idx[i] + 1] # valid_cells[rand_idx[j] + 1]
BackgroundSamplingWitness ==
  /\ vpc = "stats"
  /\ Len(occurrence_values) > Cardinality(ValidCellSet)
  /\ Len(random_values) = Cardinality(ValidCellSet)

\* a statistic has been computed or printed
StatisticsTouched ==
  y_true # <<>> \/ y_score # <<>> \/ auc_score # <<>> \/ printed
\* C7: the AUC and the summary are reached only with both samples non-empty;
\* with no surviving occurrence or no valid cell the run ends in an error
\* with no statistic computed or printed.
AucOnlyOnTwoSamples ==
  /\ (StatisticsTouched \/ vpc \in {"stats", "output", "done"}) =>
       Len(occurrence_values) > 0 /\ Len(random_values) > 0
  /\ (Loaded /\ vpc \notin {"crs", "extract", "sample"}
        /\ (Len(occurrence_values) = 0 \/ Cardinality(ValidCellSet) = 0)) =>
       vpc = "error" /\ ~StatisticsTouched
AucOnlyOnTwoSamplesWitness ==
  /\ vpc = "error"
  /\ error = "ValueError: No valid pixels for random sampling"
  /\ Len(points_gdf.geometry) > 0
  /\ Cardinality(ValidCellSet) > 0
  /\ occurrence_values = <<>>

\* C8: a point set without a coordinate reference aborts the run before any
\* point is mapped and before any raster value is extracted or sampled, and
\* gets no default reference.
MissingCrsAborts ==
  (vpc \notin {"idle", "load_shapefile"} /\ shapefile.crs = "none") =>
    /\ points_gdf.crs = "none"
    /\ vpc \in {"load_raster", "crs", "error"}
    /\ (vpc = "error" => error = "ValueError: Shapefile missing CRS definition")
    /\ pt = 0 /\ reads = <<>> /\ occurrence_values = <<>>
    /\ valid_cells = <<>> /\ rand_idx = <<>> /\ random_values = <<>>
MissingCrsAbortsWitness ==
  /\ vpc = "error"
  /\ shapefile.crs = "none"
  /\ Len(shapefile.geometry) > 0
  /\ raster_data # <<>>

\* the fractional pixel position of a point lies outside [0, width) x [0, height)
OutsideExtent(p) ==
  LET fr == InverseApply(transform, p)
      c == fr.col_num * Sign(fr.det)
      r == fr.row_num * Sign(fr.det)
  IN \/ c < 0 \/ c >= raster_width * Abs(fr.det)
     \/ r < 0 \/ r >= raster_height * Abs(fr.det)

\* C9: extract_values emits no value for a point whose fractional pixel
\* column is outside [0, width) or whose fractional row is outside
\* [0, height), points less than a pixel beyond the top or left edge included.
ExtractSkipsOutsideExtent ==
  [][(vpc = "extract" /\ pt <= Len(points_gdf.geometry)
        /\ OutsideExtent(points_gdf.geometry[pt]))
       => occurrence_values' = occurrence_values]_vars

\* C10: a raster without a nodata sentinel has every cell valid: the nodata
\* comparison raises no error, every in-grid point yields its value and the
\* valid-pixel mask covers every cell.
NoSentinelAllValid ==
  (Loaded /\ nodata.k = "none") =>
    /\ error # "TypeError: isnan"
    /\ occurrence_values = SurvivorValues(points_gdf.geometry, PointsDone)
    /\ (vpc \in {"sample", "stats", "output", "done"} =>
          Len(valid_cells) = raster_height * raster_width)

====
